---------------------------- MODULE Spec2Model ----------------------------
(***************************************************************************)
(* NovaCal: a single-user Telegram bot that manages a Google Calendar      *)
(* through a tool-calling agent with a windowed, SQL-backed chat history.  *)
(*                                                                         *)
(* Modelled here: the turn handler handle_message (access guard, tool      *)
(* catalog, agent run with history write-back, result normalization,       *)
(* output chunker, delivery, categorized error reply), the sliding-window  *)
(* history WindowedSQLChatMessageHistory, and the two read tools           *)
(* get_all_schedules and get_id_of_schedules.                              *)
(*                                                                         *)
(* Text is kept as a run-length encoded string: a sequence of runs         *)
(* [ch, n] standing for n copies of the character ch, adjacent runs        *)
(* having different characters.  Length, concatenation, split on a blank   *)
(* line and strip() are computed on that form exactly as Python computes   *)
(* them on the string, which lets the length limit keep its real value.    *)
(***************************************************************************)
EXTENDS Integers, Sequences, FiniteSets, TLC

(***************************************************************************)
(* Program constants.                                                      *)
(***************************************************************************)
\* MAX_LENGTH = 4000 (the safety buffer below Telegram's limit).
MAX_LENGTH == 4000

\* Telegram's hard limit on one message, as the code's comment states it.
TELEGRAM_LIMIT == 4096

\* super().messages[-5:] : the size of the sliding window.
WINDOW == 5

\* maxResults=50 in get_all_schedules' events().list call.
RANGE_MAX_RESULTS == 50

(***************************************************************************)
(* Bounds of the model.                                                    *)
(***************************************************************************)
\* Paragraphs in a text handed to the chunker under ChunkSpec.
MaxParas == 3

\* Messages handled in one behaviour of Spec.
MaxMsgs == 4

\* Tool invocations the engine makes in one turn.
MaxToolCalls == 2

\* Fragments in a structured engine output under NormSpec.
MaxFragments == 3

\* Events one calendar holds in the queried range, beyond maxResults.
MaxOverflow == 1

\* Updates put on the queue in one behaviour of SerialSpec.
MaxArrivals == 2

(***************************************************************************)
(* Run-length encoded text.                                                *)
(***************************************************************************)
Whitespace == {" ", "\n"}

Run(c, k) == [ch |-> c, n |-> k]

RECURSIVE Norm(_)
\* The canonical form: no empty run, no two adjacent runs of one character.
Norm(t) ==
  IF t = <<>> THEN <<>>
  ELSE IF Head(t).n = 0 THEN Norm(Tail(t))
  ELSE LET rest == Norm(Tail(t))
       IN IF rest # <<>> /\ Head(rest).ch = Head(t).ch
          THEN <<Run(Head(t).ch, Head(t).n + Head(rest).n)>> \o Tail(rest)
          ELSE <<Head(t)>> \o rest

\* a + b on strings.
Cat(a, b) == Norm(a \o b)

RECURSIVE StrLen(_)
\* len(s).
StrLen(t) == IF t = <<>> THEN 0 ELSE Head(t).n + StrLen(Tail(t))

\* not s.strip() : the string is empty or whitespace only.
IsBlank(t) == \A i \in DOMAIN t : t[i].ch \in Whitespace

RECURSIVE RStrip(_)
\* s.rstrip().
RStrip(t) ==
  IF t = <<>> THEN <<>>
  ELSE IF t[Len(t)].ch \in Whitespace THEN RStrip(SubSeq(t, 1, Len(t) - 1))
  ELSE t

NL2 == <<Run("\n", 2)>>

RECURSIVE Repeat(_, _)
Repeat(x, k) == IF k <= 0 THEN <<>> ELSE <<x>> \o Repeat(x, k - 1)

RECURSIVE SplitLoop(_, _, _)
\* s.split('\n\n') scans left to right for non-overlapping separators: a run
\* of k newlines holds k \div 2 of them and leaves k % 2 newlines, which open
\* the next part.
SplitLoop(t, cur, acc) ==
  IF t = <<>> THEN Append(acc, cur)
  ELSE LET r == Head(t)
       IN IF r.ch = "\n" /\ r.n >= 2
          THEN SplitLoop(Tail(t),
                         IF r.n % 2 = 1 THEN <<Run("\n", 1)>> ELSE <<>>,
                         Append(acc, cur) \o Repeat(<<>>, (r.n \div 2) - 1))
          ELSE SplitLoop(Tail(t), Append(cur, r), acc)

SplitParas(t) == SplitLoop(t, <<>>, <<>>)

RECURSIVE ConcatAll(_)
\* "".join(segments).
ConcatAll(ss) == IF ss = <<>> THEN <<>> ELSE Cat(Head(ss), ConcatAll(Tail(ss)))

(***************************************************************************)
(* Output chunker (handle_message, step 11).                               *)
(***************************************************************************)
\* if current_chunks.strip(): message_to_send.append(current_chunks)
Flush(current_chunks, message_to_send) ==
  IF ~IsBlank(current_chunks) THEN Append(message_to_send, current_chunks)
  ELSE message_to_send

\* The test that packs a part into the current chunk.
Fits(current_chunks, part) ==
  StrLen(current_chunks) + StrLen(part) + 2 < MAX_LENGTH

RECURSIVE ChunkLoop_NoSeparator(_, _, _, _)
\* Mutant: the blank line is not put back after a part.
ChunkLoop_NoSeparator(parts, i, current_chunks, message_to_send) ==
  IF i > Len(parts) THEN Flush(current_chunks, message_to_send)
  ELSE IF Fits(current_chunks, parts[i])
       THEN ChunkLoop_NoSeparator(parts, i + 1,
                                  Cat(current_chunks, parts[i]), message_to_send)
       ELSE ChunkLoop_NoSeparator(parts, i + 1, parts[i],
                                  Flush(current_chunks, message_to_send))

RECURSIVE ChunkLoop(_, _, _, _)
\* for part in parts: ... ; then the final flush.
ChunkLoop(parts, i, current_chunks, message_to_send) ==
  IF i > Len(parts) THEN Flush(current_chunks, message_to_send)
  ELSE IF Fits(current_chunks, parts[i])
       THEN ChunkLoop(parts, i + 1,
                      Cat(Cat(current_chunks, parts[i]), NL2), message_to_send)
       ELSE ChunkLoop(parts, i + 1,
                      Cat(parts[i], NL2), Flush(current_chunks, message_to_send))

\* Mutant: the length test made strict, so a text of exactly MAX_LENGTH is split.
Chunk_StrictLimit(final_answer) ==
  IF StrLen(final_answer) < MAX_LENGTH THEN <<final_answer>>
  ELSE ChunkLoop(SplitParas(final_answer), 1, <<>>, <<>>)

Chunk(final_answer) ==
  IF StrLen(final_answer) <= MAX_LENGTH THEN <<final_answer>>
  ELSE ChunkLoop(SplitParas(final_answer), 1, <<>>, <<>>)

(***************************************************************************)
(* Names and error texts are sequences of characters, so that lower() and  *)
(* the substring tests are computed.                                       *)
(***************************************************************************)
Upper ==
  <<"A", "B", "C", "D", "E", "F", "G", "H", "I", "J", "K", "L", "M", "N",
    "O", "P", "Q", "R", "S", "T", "U", "V", "W", "X", "Y", "Z">>

Lowers ==
  <<"a", "b", "c", "d", "e", "f", "g", "h", "i", "j", "k", "l", "m", "n",
    "o", "p", "q", "r", "s", "t", "u", "v", "w", "x", "y", "z">>

\* One character of s.lower().
LowerChar(c) ==
  IF \E i \in DOMAIN Upper : Upper[i] = c
  THEN Lowers[CHOOSE i \in DOMAIN Upper : Upper[i] = c]
  ELSE c

\* s.lower().
Lower(s) == [i \in DOMAIN s |-> LowerChar(s[i])]

\* kw in s.
Contains(s, kw) ==
  \E i \in 0..(Len(s) - Len(kw)) : SubSeq(s, i + 1, i + Len(kw)) = kw

\* The text a sequence of characters spells.
FromChars(cs) == Norm([i \in DOMAIN cs |-> Run(cs[i], 1)])

(***************************************************************************)
(* Tool catalog (handle_message, step 3).                                  *)
(***************************************************************************)
CalendarCreateEvent ==
  <<"C", "a", "l", "e", "n", "d", "a", "r", "C", "r", "e", "a", "t", "e",
    "E", "v", "e", "n", "t">>

CalendarSearchEvents ==
  <<"C", "a", "l", "e", "n", "d", "a", "r", "S", "e", "a", "r", "c", "h",
    "E", "v", "e", "n", "t", "s">>

CalendarUpdateEvent ==
  <<"C", "a", "l", "e", "n", "d", "a", "r", "U", "p", "d", "a", "t", "e",
    "E", "v", "e", "n", "t">>

CalendarDeleteEvent ==
  <<"C", "a", "l", "e", "n", "d", "a", "r", "D", "e", "l", "e", "t", "e",
    "E", "v", "e", "n", "t">>

search_events ==
  <<"s", "e", "a", "r", "c", "h", "_", "e", "v", "e", "n", "t", "s">>

get_events ==
  <<"g", "e", "t", "_", "e", "v", "e", "n", "t", "s">>

\* The two custom read tools of function.py.
get_id_of_schedules ==
  <<"g", "e", "t", "_", "i", "d", "_", "o", "f", "_", "s", "c", "h", "e",
    "d", "u", "l", "e", "s">>

get_all_schedules ==
  <<"g", "e", "t", "_", "a", "l", "l", "_", "s", "c", "h", "e", "d", "u",
    "l", "e", "s">>

KwSearch == <<"s", "e", "a", "r", "c", "h">>

KwGet == <<"g", "e", "t">>

\* The native operation set the prompt's procedures name.
NativeTools ==
  <<CalendarCreateEvent, CalendarSearchEvents, CalendarUpdateEvent,
    CalendarDeleteEvent>>

\* What toolkit.get_tools() may return: the native operation set, under
\* either of the namings the prompt uses for it.
NativeCatalogs ==
  { NativeTools,
    <<search_events, CalendarCreateEvent, get_events, CalendarDeleteEvent>> }

\* Mutant: the filter compares the name as written, without lower().
Banned_CaseSensitive(name) == Contains(name, KwSearch) \/ Contains(name, KwGet)

\* "search" in t.name.lower() or "get" in t.name.lower()
Banned(name) ==
  Contains(Lower(name), KwSearch) \/ Contains(Lower(name), KwGet)

\* used_tools = [t for t in calendar_tools if ...]
UsedTools(calendar_tools) == SelectSeq(calendar_tools, LAMBDA n : ~Banned(n))

\* tools = used_tools + [get_id_of_schedules, get_all_schedules]
Catalog(calendar_tools) ==
  UsedTools(calendar_tools) \o <<get_id_of_schedules, get_all_schedules>>

(***************************************************************************)
(* Error classification (handle_message, step 13).                         *)
(***************************************************************************)
ErrTexts ==
  { <<"4", "2", "9", " ", "A", "P", "I", "_", "K", "E", "Y">>,
    <<"Q", "u", "o", "t", "a">>,
    <<"4", "0", "3", " ", "i", "n", "v", "a", "l", "i", "d", "_", "g", "r",
      "a", "n", "t">>,
    <<"U", "n", "a", "u", "t", "h", "o", "r", "i", "z", "e", "d">>,
    <<"t", "i", "m", "e", "d", " ", "o", "u", "t">> }

\* Mutant: the credential test comes before the quota test.
Classify_CredentialFirst(e) ==
  LET error_msg == Lower(e)
  IN IF \/ Contains(error_msg, <<"a", "p", "i", "_", "k", "e", "y">>)
        \/ Contains(error_msg,
                    <<"k", "e", "y", " ", "i", "n", "v", "a", "l", "i", "d">>)
        \/ Contains(error_msg, <<"4", "0", "3">>)
     THEN "Configuration Error"
     ELSE IF \/ Contains(error_msg, <<"q", "u", "o", "t", "a">>)
             \/ Contains(error_msg, <<"4", "2", "9">>)
             \/ Contains(error_msg,
                         <<"e", "x", "h", "a", "u", "s", "t", "e", "d">>)
     THEN "API Limit Reached"
     ELSE IF \/ Contains(error_msg,
                         <<"u", "n", "a", "u", "t", "h", "o", "r", "i", "z", "e",
                           "d">>)
             \/ Contains(error_msg,
                         <<"i", "n", "v", "a", "l", "i", "d", "_", "g", "r", "a",
                           "n", "t">>)
             \/ Contains(error_msg,
                         <<"c", "a", "l", "e", "n", "d", "a", "r", "_", "i", "d">>)
     THEN "Calendar Sync Error"
     ELSE "System Error"

\* The reply chosen by the if / elif chain over str(e).lower().
Classify(e) ==
  LET error_msg == Lower(e)
  IN IF \/ Contains(error_msg, <<"q", "u", "o", "t", "a">>)
        \/ Contains(error_msg, <<"4", "2", "9">>)
        \/ Contains(error_msg, <<"e", "x", "h", "a", "u", "s", "t", "e", "d">>)
     THEN "API Limit Reached"
     ELSE IF \/ Contains(error_msg, <<"a", "p", "i", "_", "k", "e", "y">>)
             \/ Contains(error_msg,
                         <<"k", "e", "y", " ", "i", "n", "v", "a", "l", "i", "d">>)
             \/ Contains(error_msg, <<"4", "0", "3">>)
     THEN "Configuration Error"
     ELSE IF \/ Contains(error_msg,
                         <<"u", "n", "a", "u", "t", "h", "o", "r", "i", "z", "e",
                           "d">>)
             \/ Contains(error_msg,
                         <<"i", "n", "v", "a", "l", "i", "d", "_", "g", "r", "a",
                           "n", "t">>)
             \/ Contains(error_msg,
                         <<"c", "a", "l", "e", "n", "d", "a", "r", "_", "i", "d">>)
     THEN "Calendar Sync Error"
     ELSE "System Error"

(***************************************************************************)
(* Result normalization (handle_message, step 10).                         *)
(*                                                                         *)
(* response is [has_output, output]; an output is a string                 *)
(* [kind |-> "str", text, parts |-> <<>>] or a list                        *)
(* [kind |-> "list", text |-> <<>>, parts]; a fragment of a list is a dict *)
(* with a "text" key, a plain string, or anything else.                    *)
(***************************************************************************)
FALLBACK ==
  FromChars(
    <<"S", "o", "r", "r", "y", ",", " ", "I", " ", "a", "m", " ", "u", "n",
      "a", "b", "l", "e", " ", "t", "o", " ", "p", "r", "o", "c", "e", "s",
      "s", " ", "t", "h", "a", "t", " ", "s", "c", "h", "e", "d", "u", "l",
      "i", "n", "g", " ", "r", "e", "q", "u", "e", "s", "t", " ", "r", "i",
      "g", "h", "t", " ", "n", "o", "w", ".">>)

StrOut(t) == [kind |-> "str", text |-> t, parts |-> <<>>]

ListOut(ps) == [kind |-> "list", text |-> <<>>, parts |-> ps]

Frag(k, t) == [kind |-> k, text |-> t]

\* len(response["output"])
OutLen(output) ==
  IF output.kind = "list" THEN Len(output.parts) ELSE StrLen(output.text)

RECURSIVE CleanedText(_)
\* The loop over the parts of a list output.
CleanedText(parts) ==
  IF parts = <<>> THEN <<>>
  ELSE LET part == Head(parts)
       IN IF part.kind \in {"dict_text", "str"}
          THEN Cat(part.text, CleanedText(Tail(parts)))
          ELSE CleanedText(Tail(parts))

\* The if / else of step 10.
FinalAnswer(resp) ==
  IF resp.has_output /\ OutLen(resp.output) > 0
  THEN IF resp.output.kind = "list"
       THEN CleanedText(resp.output.parts)
       ELSE resp.output.text
  ELSE FALLBACK

(***************************************************************************)
(* Sliding-window history (WindowedSQLChatMessageHistory).                 *)
(***************************************************************************)
\* Mutant: the slice taken from the front of the log.
Window_Oldest(all_messages) ==
  SubSeq(all_messages, 1,
         IF Len(all_messages) < WINDOW THEN Len(all_messages) ELSE WINDOW)

\* Mutant: the read misses the two rows written last.
Window_Stale(all_messages) ==
  IF Len(all_messages) < 2 THEN <<>>
  ELSE SubSeq(all_messages, 1, Len(all_messages) - 2)

\* super().messages[-5:]
Window(all_messages) ==
  SubSeq(all_messages,
         IF Len(all_messages) > WINDOW THEN Len(all_messages) - WINDOW + 1 ELSE 1,
         Len(all_messages))

Turn(r, c) == [role |-> r, content |-> c]

(***************************************************************************)
(* State.                                                                  *)
(***************************************************************************)
VARIABLES
  pc,               \* where handle_message stands
  msg,              \* the update being handled: [user, chat, text]
  handled,          \* updates received so far
  log,              \* the message table: session id -> all rows, oldest first
  log0,             \* log as it was when the update was received
  window,           \* chat_history as the agent was given it
  calendar_tools,   \* what toolkit.get_tools() returned in this turn
  tools,            \* the catalog of this turn
  toolCalls,        \* tools invoked so far by the agent run in progress
  engineCalls,      \* reasoning-engine calls made in this turn
  response,         \* what agent_with_memory.invoke returned
  final_answer,
  message_to_send,
  idx,              \* the next segment to send (1-based)
  sent,             \* send_message attempts of this turn, in order
  err,              \* the text of the exception caught, if any
  update_queue,     \* every update put on the application's queue, in order
  rpc,              \* where get_all_schedules stands
  backend,          \* calendar id -> its events in the range, by start time
  unreachable,      \* calendar ids whose events().list call raises
  rcal,             \* position in target_calendars
  all_events,
  rresult,          \* get_all_schedules' return value
  kpc,              \* where get_id_of_schedules stands
  keyword,          \* its argument
  kevents,          \* get_id_of_schedules' events = result.get("items", [])
  kresult           \* get_id_of_schedules' return value

vars ==
  <<pc, msg, handled, log, log0, window, calendar_tools, tools, toolCalls,
    engineCalls,
    response, final_answer, message_to_send, idx, sent, err, update_queue,
    rpc, backend, unreachable, rcal, all_events, rresult,
    kpc, keyword, kevents, kresult>>

handlerVars ==
  <<pc, msg, handled, log, log0, window, calendar_tools, tools, toolCalls,
    engineCalls,
    response, final_answer, message_to_send, idx, sent, err, update_queue>>

rangeVars == <<rpc, backend, unreachable, rcal, all_events, rresult>>

keywordVars == <<kpc, keyword, kevents, kresult>>

\* TELEGRAM_DEVELOPER_CHAT_ID, the one allowed identity.
TELEGRAM_DEVELOPER_CHAT_ID == "dev"

Users == {TELEGRAM_DEVELOPER_CHAT_ID, "stranger"}

\* A private chat has its user's id; a group chat has its own.
Chats == Users \cup {"group"}

\* The ids a session of the message table can be keyed by.
Sessions == Chats

X(k) == <<Run("x", k)>>

UserTexts == {X(3), Cat(X(2), <<Run(" ", 1), Run("y", 1)>>)}

\* The "output" of the agent's last step under Spec: a short answer, and a
\* long one of two paragraphs.  (Structured outputs are taken up by NormSpec.)
EngineOutputs ==
  { StrOut(X(2)),
    StrOut(Cat(X(MAX_LENGTH - 1), Cat(NL2, X(MAX_LENGTH - 1)))) }

NoMsg == [user |-> "", chat |-> "", text |-> <<>>]

NoResponse == [has_output |-> FALSE, output |-> StrOut(<<>>)]

NoResult ==
  [kind |-> "", start_date |-> 0, end_date |-> 0, lines |-> <<>>, error |-> ""]

NoMatches == [kind |-> "", lines |-> <<>>, error |-> ""]

HandlerInit ==
  /\ pc = "idle"
  /\ msg = NoMsg
  /\ handled = 0
  /\ log = [u \in Sessions |-> <<>>]
  /\ log0 = [u \in Sessions |-> <<>>]
  /\ window = <<>>
  /\ calendar_tools = <<>>
  /\ tools = <<>>
  /\ toolCalls = <<>>
  /\ engineCalls = 0
  /\ response = NoResponse
  /\ final_answer = <<>>
  /\ message_to_send = <<>>
  /\ idx = 1
  /\ sent = <<>>
  /\ err = <<>>
  /\ update_queue = <<>>

RangeIdle ==
  /\ rpc = "idle"
  /\ backend = <<>>
  /\ unreachable = {}
  /\ rcal = 1
  /\ all_events = <<>>
  /\ rresult = NoResult

KeywordIdle ==
  /\ kpc = "idle"
  /\ keyword = ""
  /\ kevents = <<>>
  /\ kresult = NoMatches

Init == HandlerInit /\ RangeIdle /\ KeywordIdle

(***************************************************************************)
(* handle_message.                                                         *)
(***************************************************************************)
Attempt(to, kind, ok, class, text) ==
  [to |-> to, kind |-> kind, ok |-> ok, class |-> class, text |-> text]

\* str(user_id) != str(TELEGRAM_DEVELOPER_CHAT_ID)
Denied(user_id) == user_id # TELEGRAM_DEVELOPER_CHAT_ID

\* config = {"configurable": {"session_id": str(user_id)}}
SessionId(user_id) == user_id

\* The handler is entered with an update: it reads the update's fields and
\* runs the access check.
Enter ==
  /\ pc \in {"idle", "done"}
  /\ handled < MaxMsgs
  /\ \E u \in Users, c \in Chats, t \in UserTexts :
       /\ c \in {u, "group"}
       /\ msg' = [user |-> u, chat |-> c, text |-> t]
       /\ pc' = IF Denied(u) THEN "deny" ELSE "typing"
  /\ handled' = handled + 1
  /\ log0' = log
  /\ window' = <<>>
  /\ calendar_tools' = <<>>
  /\ tools' = <<>>
  /\ toolCalls' = <<>>
  /\ engineCalls' = 0
  /\ response' = NoResponse
  /\ final_answer' = <<>>
  /\ message_to_send' = <<>>
  /\ idx' = 1
  /\ sent' = <<>>
  /\ err' = <<>>
  /\ UNCHANGED <<rangeVars, keywordVars, log>>

\* An update arrives while no other is being handled, and is handled at once.
Receive == Enter /\ UNCHANGED update_queue

\* Mutant: a failed denial reply ends the handler before the alert.
AfterDenial_Abort(ok) == IF ok THEN "alert" ELSE "done"

\* The first try block ends, sent or not, and the second one follows.
AfterDenial(ok) == "alert"

\* send_message(chat_id, "Access Denied!") inside its own try / except.
DenySend ==
  /\ pc = "deny"
  /\ \E ok \in BOOLEAN :
       /\ sent' = Append(sent, Attempt(msg.chat, "denial", ok, "", <<>>))
       /\ pc' = AfterDenial(ok)
  /\ UNCHANGED <<rangeVars, keywordVars, update_queue, msg, handled, log, log0, window, calendar_tools, tools, toolCalls,
                 engineCalls, response, final_answer, message_to_send, idx, err>>

\* send_message(TELEGRAM_DEVELOPER_CHAT_ID, alert_msg) inside its own
\* try / except, then return.
AlertSend ==
  /\ pc = "alert"
  /\ \E ok \in BOOLEAN :
       sent' = Append(sent, Attempt(TELEGRAM_DEVELOPER_CHAT_ID, "alert", ok,
                                    "", <<>>))
  /\ pc' = "done"
  /\ UNCHANGED <<rangeVars, keywordVars, update_queue, msg, handled, log, log0, window, calendar_tools, tools, toolCalls,
                 engineCalls, response, final_answer, message_to_send, idx, err>>

\* An exception raised inside the try block: control goes to the except clause.
Raise(e) ==
  /\ pc' = "except"
  /\ err' = e

\* send_chat_action(TYPING)
Typing ==
  /\ pc = "typing"
  /\ \/ pc' = "build" /\ err' = err
     \/ \E e \in ErrTexts : Raise(e)
  /\ UNCHANGED <<rangeVars, keywordVars, update_queue, msg, handled, log, log0, window, calendar_tools, tools, toolCalls,
                 engineCalls, response, final_answer, message_to_send, idx, sent>>

\* CalendarToolkit(), get_tools(), the filter and the two custom tools.
BuildCatalog ==
  /\ pc = "build"
  /\ \/ \E native \in NativeCatalogs :
          /\ calendar_tools' = native
          /\ tools' = Catalog(native)
          /\ pc' = "agent"
          /\ err' = err
     \/ (\E e \in ErrTexts : Raise(e)) /\ UNCHANGED <<calendar_tools, tools>>
  /\ UNCHANGED <<rangeVars, keywordVars, update_queue, msg, handled, log, log0, window, toolCalls,
                 engineCalls, response, final_answer, message_to_send, idx,
                 sent>>

\* agent_with_memory.invoke starts: the history of the session is read
\* through the messages property into chat_history.
AgentStart ==
  /\ pc = "agent"
  /\ window' = Window(log[SessionId(msg.user)])
  /\ pc' = "engine"
  /\ UNCHANGED <<rangeVars, keywordVars, update_queue, msg, handled, log, log0, calendar_tools, tools, toolCalls, engineCalls,
                 response, final_answer, message_to_send, idx, sent, err>>

\* The engine asks for a tool; the executor looks it up by name in tools.
AgentTool ==
  /\ pc = "engine"
  /\ Len(toolCalls) < MaxToolCalls
  /\ \E i \in DOMAIN tools : toolCalls' = Append(toolCalls, tools[i])
  /\ engineCalls' = engineCalls + 1
  /\ UNCHANGED <<rangeVars, keywordVars, update_queue, pc, msg, handled, log, log0, window, calendar_tools, tools, response,
                 final_answer, message_to_send, idx, sent, err>>

\* Mutant: the write-back keeps only the last WINDOW rows of the session.
WriteBack_Trimmed(l, m, output) ==
  [l EXCEPT ![SessionId(m.user)] =
     Window(@ \o <<Turn("user", StrOut(m.text)), Turn("assistant", output)>>)]

\* Mutant: the write-back files the two turns under the chat, not the user.
WriteBack_ByChat(l, m, output) ==
  [l EXCEPT ![m.chat] =
     @ \o <<Turn("user", StrOut(m.text)), Turn("assistant", output)>>]

\* RunnableWithMessageHistory, once the run has ended: the input and the
\* output are added to the session's history.
WriteBack(l, m, output) ==
  [l EXCEPT ![SessionId(m.user)] =
     @ \o <<Turn("user", StrOut(m.text)), Turn("assistant", output)>>]

\* The engine gives its final answer and invoke returns.
AgentFinish ==
  /\ pc = "engine"
  /\ \E out \in EngineOutputs :
       /\ response' = [has_output |-> TRUE, output |-> out]
       /\ log' = WriteBack(log, msg, out)
  /\ engineCalls' = engineCalls + 1
  /\ toolCalls' = <<>>
  /\ pc' = "normalize"
  /\ UNCHANGED <<rangeVars, keywordVars, update_queue, msg, handled, log0, window, calendar_tools, tools,
                 final_answer, message_to_send, idx, sent, err>>

\* The run raises (quota, credentials, calendar authorization, network).
AgentRaise ==
  /\ pc = "engine"
  /\ \E e \in ErrTexts : Raise(e)
  /\ engineCalls' = engineCalls + 1
  /\ toolCalls' = <<>>
  /\ UNCHANGED <<rangeVars, keywordVars, update_queue, msg, handled, log, log0, window, calendar_tools, tools,
                 response, final_answer, message_to_send, idx, sent>>

\* Step 10.
Normalize ==
  /\ pc = "normalize"
  /\ final_answer' = FinalAnswer(response)
  /\ pc' = "chunk"
  /\ UNCHANGED <<rangeVars, keywordVars, update_queue, msg, handled, log, log0, window, calendar_tools, tools, toolCalls,
                 engineCalls, response, message_to_send, idx, sent, err>>

\* Step 11.
ChunkAnswer ==
  /\ pc = "chunk"
  /\ message_to_send' = Chunk(final_answer)
  /\ idx' = 1
  /\ pc' = "send"
  /\ UNCHANGED <<rangeVars, keywordVars, update_queue, msg, handled, log, log0, window, calendar_tools, tools, toolCalls,
                 engineCalls, response, final_answer, sent, err>>

\* Telegram accepts a text that is not empty and not over its limit.
Deliverable(text) == ~IsBlank(text) /\ StrLen(text) <= TELEGRAM_LIMIT

\* Mutant: a failed delivery takes the turn's two rows out of the log again.
SendSegment_Rollback ==
  /\ pc = "send"
  /\ idx <= Len(message_to_send)
  /\ \/ /\ Deliverable(message_to_send[idx])
        /\ sent' = Append(sent, Attempt(msg.chat, "segment", TRUE, "",
                                        message_to_send[idx]))
        /\ idx' = idx + 1
        /\ UNCHANGED <<pc, err, log>>
     \/ /\ sent' = Append(sent, Attempt(msg.chat, "segment", FALSE, "",
                                        message_to_send[idx]))
        /\ \E e \in ErrTexts : Raise(e)
        /\ idx' = idx
        /\ log' = log0
  /\ UNCHANGED <<rangeVars, keywordVars, update_queue, msg, handled, log0,
                 window, calendar_tools, tools, toolCalls, engineCalls,
                 response, final_answer, message_to_send>>

\* Step 12, one iteration: send_message(chat_id, answer).
SendSegment ==
  /\ pc = "send"
  /\ idx <= Len(message_to_send)
  /\ \/ /\ Deliverable(message_to_send[idx])
        /\ sent' = Append(sent, Attempt(msg.chat, "segment", TRUE, "",
                                        message_to_send[idx]))
        /\ idx' = idx + 1
        /\ UNCHANGED <<rangeVars, keywordVars, pc, err>>
     \/ /\ sent' = Append(sent, Attempt(msg.chat, "segment", FALSE, "",
                                        message_to_send[idx]))
        /\ \E e \in ErrTexts : Raise(e)
        /\ idx' = idx
  /\ UNCHANGED <<rangeVars, keywordVars, update_queue, msg, handled, log, log0, window, calendar_tools, tools, toolCalls,
                 engineCalls, response, final_answer, message_to_send>>

\* Step 12, the loop is over: the handler returns.
SendEnd ==
  /\ pc = "send"
  /\ idx > Len(message_to_send)
  /\ pc' = "done"
  /\ UNCHANGED <<rangeVars, keywordVars, update_queue, msg, handled, log, log0, window, calendar_tools, tools, toolCalls,
                 engineCalls, response, final_answer, message_to_send, idx,
                 sent, err>>

\* Step 13: the categorized reply, sent inside its own try / except.
ErrorReply ==
  /\ pc = "except"
  /\ \E ok \in BOOLEAN :
       sent' = Append(sent, Attempt(msg.chat, "error", ok, Classify(err), <<>>))
  /\ pc' = "done"
  /\ UNCHANGED <<rangeVars, keywordVars, update_queue, msg, handled, log, log0, window, calendar_tools, tools, toolCalls,
                 engineCalls, response, final_answer, message_to_send, idx, err>>

Next ==
  \/ Receive
  \/ DenySend
  \/ AlertSend
  \/ Typing
  \/ BuildCatalog
  \/ AgentStart
  \/ AgentTool
  \/ AgentFinish
  \/ AgentRaise
  \/ Normalize
  \/ ChunkAnswer
  \/ SendSegment
  \/ SendEnd
  \/ ErrorReply


Spec == Init /\ [][Next]_vars

(***************************************************************************)
(* The same handler behind the application's update queue.  Updates may    *)
(* arrive at any moment; run_polling() of an application built without     *)
(* concurrent_updates handles them one by one, in order, each handler      *)
(* being awaited before the next update is taken.                          *)
(***************************************************************************)
\* Telegram delivers an update, written in the sender's private chat; busy
\* tells whether a handler was running.
Arrive ==
  /\ Len(update_queue) < MaxArrivals
  /\ \E u \in Users, t \in UserTexts :
       update_queue' =
         Append(update_queue,
                [user |-> u, chat |-> u, text |-> t,
                 busy |-> pc \notin {"idle", "done"}])
  /\ UNCHANGED <<rangeVars, keywordVars, pc, msg, handled, log, log0, window,
                 calendar_tools, tools, toolCalls, engineCalls, response,
                 final_answer, message_to_send, idx, sent, err>>

\* The application takes the next update of the queue once the handler of
\* the one before has returned.
Dispatch ==
  /\ handled < Len(update_queue)
  /\ Enter
  /\ msg' = [user |-> update_queue[handled + 1].user,
             chat |-> update_queue[handled + 1].chat,
             text |-> update_queue[handled + 1].text]
  /\ UNCHANGED update_queue

SerialNext ==
  \/ Arrive
  \/ Dispatch
  \/ DenySend
  \/ AlertSend
  \/ Typing
  \/ BuildCatalog
  \/ AgentStart
  \/ AgentTool
  \/ AgentFinish
  \/ AgentRaise
  \/ Normalize
  \/ ChunkAnswer
  \/ SendSegment
  \/ SendEnd
  \/ ErrorReply

SerialSpec == Init /\ [][SerialNext]_vars

(***************************************************************************)
(* get_all_schedules (function.py).                                        *)
(*                                                                         *)
(* backend[c] holds the events of calendar c that fall in the queried      *)
(* range, ordered by start time, as events().list(orderBy='startTime')     *)
(* sees them.  An event of the primary calendar is timed (its start has a  *)
(* dateTime); a holiday is an all-day event (its start has a date only).   *)
(***************************************************************************)
\* target_calendars = ['primary', 'id.indonesian#holiday@...']
target_calendars == <<"primary", "holiday">>

Event(c, d) ==
  [cal |-> c, summary |-> IF c = "primary" THEN "meeting" ELSE "holiday",
   kind |-> IF c = "primary" THEN "dateTime" ELSE "date",
   day |-> d, from |-> IF c = "primary" THEN 540 ELSE 0,
   to |-> IF c = "primary" THEN 600 ELSE 0]

\* k events of calendar c on the days first + 1 .. first + k.
Events(c, k, first) == [i \in 1..k |-> Event(c, first + i)]

EventCounts ==
  {0, 1, 2} \cup ((RANGE_MAX_RESULTS - 1)..(RANGE_MAX_RESULTS + MaxOverflow))

\* Mutant: the request that carries no maxResults and gets every event.
ListEvents_NoCap(events, maxResults) == events

\* events().list(..., maxResults=n, orderBy='startTime').execute()["items"]
ListEvents(events, maxResults) ==
  SubSeq(events, 1, IF Len(events) < maxResults THEN Len(events) ELSE maxResults)

\* One line of the response: "- [date] title (time_str)".
FormatEvent(e) ==
  [date |-> e.day, title |-> e.summary,
   allday |-> e.kind # "dateTime",
   from |-> IF e.kind = "dateTime" THEN e.from ELSE 0,
   to |-> IF e.kind = "dateTime" THEN e.to ELSE 0]

\* str(e) of what a call of the Google client raises: a non-empty or an
\* empty message.
ToolErrors == {"invalid_grant", ""}

RangeInit ==
  /\ HandlerInit
  /\ KeywordIdle
  /\ rpc = "call"
  /\ \E kp \in EventCounts, kh \in EventCounts, first \in {0, RANGE_MAX_RESULTS + 10} :
       backend = [c \in {"primary", "holiday"} |->
                    IF c = "primary" THEN Events(c, kp, 0)
                    ELSE Events(c, kh, first)]
  /\ unreachable \in SUBSET {"primary", "holiday"}
  /\ rcal = 1
  /\ all_events = <<>>
  /\ rresult = [NoResult EXCEPT !.start_date = 1, !.end_date = 7]

\* Credentials.from_authorized_user_file and build(): they succeed, or the
\* outer except returns the error text.
RangeAuth ==
  /\ rpc = "call"
  /\ \/ rpc' = "list" /\ rresult' = rresult
     \/ /\ rpc' = "returned"
        /\ \E e \in ToolErrors :
             rresult' = [rresult EXCEPT !.kind = "error", !.error = e]
  /\ UNCHANGED <<handlerVars, keywordVars, backend, unreachable, rcal, all_events>>

\* One iteration of the loop over target_calendars.
RangeList ==
  /\ rpc = "list"
  /\ rcal <= Len(target_calendars)
  /\ LET calendar_id == target_calendars[rcal]
     IN all_events' =
          IF calendar_id \in unreachable THEN all_events
          ELSE all_events \o ListEvents(backend[calendar_id], RANGE_MAX_RESULTS)
  /\ rcal' = rcal + 1
  /\ UNCHANGED <<handlerVars, keywordVars, rpc, backend, unreachable, rresult>>

\* Steps 5 and 6: the sentinel, or one line per aggregated event.
RangeFormat ==
  /\ rpc = "list"
  /\ rcal > Len(target_calendars)
  /\ rresult' =
       IF all_events = <<>> THEN [rresult EXCEPT !.kind = "none"]
       ELSE [rresult EXCEPT !.kind = "schedule",
                            !.lines = [i \in DOMAIN all_events |->
                                         FormatEvent(all_events[i])]]
  /\ rpc' = "returned"
  /\ UNCHANGED <<handlerVars, keywordVars, backend, unreachable, rcal, all_events>>

RangeNext ==
  \/ RangeAuth
  \/ RangeList
  \/ RangeFormat

RangeSpec == RangeInit /\ [][RangeNext]_vars

(***************************************************************************)
(* get_id_of_schedules (function.py).                                      *)
(*                                                                         *)
(* backend["primary"] holds the events that match the keyword, ordered by  *)
(* start time.  An event whose start carries neither a dateTime nor a date *)
(* makes start_raw None, and start_raw[:10] raises.                        *)
(***************************************************************************)
\* maxResults=10 in get_id_of_schedules' events().list call.
KEYWORD_MAX_RESULTS == 10

Keywords == {"Gym", ""}

MatchCounts ==
  {0, 1, 2} \cup ((KEYWORD_MAX_RESULTS - 1)..(KEYWORD_MAX_RESULTS + MaxOverflow))

\* k matching events, the last of them without a usable start if broken.
Matching(k, broken) ==
  [i \in 1..k |->
     IF broken /\ i = k THEN [Event("primary", i) EXCEPT !.kind = "none"]
     ELSE Event("primary", i)]

\* One line of the response: "- [date] 'title' (time_str) | EVENT_ID: id".
FormatMatch(e) ==
  [date |-> e.day, title |-> e.summary,
   allday |-> e.kind # "dateTime",
   from |-> IF e.kind = "dateTime" THEN e.from ELSE 0,
   to |-> IF e.kind = "dateTime" THEN e.to ELSE 0,
   event_id |-> <<e.cal, e.day>>]

KeywordInit ==
  /\ HandlerInit
  /\ rpc = "idle"
  /\ rcal = 1
  /\ all_events = <<>>
  /\ rresult = NoResult
  /\ kpc = "call"
  /\ keyword \in Keywords
  /\ \E k \in MatchCounts, broken \in BOOLEAN :
       /\ broken => k > 0
       /\ backend = [c \in {"primary", "holiday"} |->
                       IF c = "primary" THEN Matching(k, broken) ELSE <<>>]
  /\ unreachable \in SUBSET {"primary"}
  /\ kevents = <<>>
  /\ kresult = NoMatches

\* except Exception as e: return f"Error executing search tool: {str(e)}"
KeywordRaise(e) ==
  /\ kresult' = [kresult EXCEPT !.kind = "error", !.error = e]
  /\ kpc' = "returned"

\* Credentials.from_authorized_user_file and build().
KeywordAuth ==
  /\ kpc = "call"
  /\ \/ kpc' = "list" /\ kresult' = kresult
     \/ \E e \in ToolErrors : KeywordRaise(e)
  /\ UNCHANGED <<handlerVars, rangeVars, keyword, kevents>>

\* events().list(calendarId="primary", q=keyword, maxResults=10, ...).
KeywordList ==
  /\ kpc = "list"
  /\ IF "primary" \in unreachable
     THEN (\E e \in ToolErrors : KeywordRaise(e)) /\ kevents' = kevents
     ELSE /\ kevents' = ListEvents(backend["primary"], KEYWORD_MAX_RESULTS)
          /\ kpc' = "format"
          /\ kresult' = kresult
  /\ UNCHANGED <<handlerVars, rangeVars, keyword>>

\* Steps 4 and 5: the sentinel, or one line per event; an event without a
\* start raises out of the loop into the except clause.
KeywordFormat ==
  /\ kpc = "format"
  /\ IF kevents = <<>>
     THEN kresult' = [kresult EXCEPT !.kind = "none"] /\ kpc' = "returned"
     ELSE IF \E i \in DOMAIN kevents : kevents[i].kind = "none"
     THEN KeywordRaise("'NoneType' object is not subscriptable")
     ELSE /\ kresult' = [kresult EXCEPT !.kind = "matches",
                                        !.lines = [i \in DOMAIN kevents |->
                                                     FormatMatch(kevents[i])]]
          /\ kpc' = "returned"
  /\ UNCHANGED <<handlerVars, rangeVars, keyword, kevents>>

(***************************************************************************)
(* The strings the two tools return, as the pieces their f-strings are     *)
(* made of: literal text, an interpolated argument, or an event line.      *)
(***************************************************************************)
Lit(s) == [kind |-> "lit", v |-> s]

Arg(a) == [kind |-> "arg", v |-> a]

Lines(ls) == [i \in DOMAIN ls |-> [kind |-> "line", v |-> ls[i]]]

\* What get_all_schedules returns.
RangeText(r) ==
  CASE r.kind = "none" ->
         <<Lit("No events scheduled from "), Arg(r.start_date), Lit(" to "),
           Arg(r.end_date), Lit(".")>>
    [] r.kind = "schedule" ->
         <<Lit("Schedule from "), Arg(r.start_date), Lit(" to "),
           Arg(r.end_date), Lit(":\n")>> \o Lines(r.lines)
    [] r.kind = "error" ->
         <<Lit("Error executing schedule fetcher: "), Arg(r.error)>>
    [] OTHER -> <<>>

\* Mutant: the except clause returns str(e) alone.
KeywordText_BareError(kw, r) ==
  CASE r.kind = "none" ->
         <<Lit("No events found matching the keyword: '"), Arg(kw), Lit("'.")>>
    [] r.kind = "matches" ->
         <<Lit("Matching Events Found for '"), Arg(kw), Lit("':\n")>>
           \o Lines(r.lines)
    [] r.kind = "error" -> <<Arg(r.error)>>
    [] OTHER -> <<>>

\* What get_id_of_schedules returns.
KeywordText(kw, r) ==
  CASE r.kind = "none" ->
         <<Lit("No events found matching the keyword: '"), Arg(kw), Lit("'.")>>
    [] r.kind = "matches" ->
         <<Lit("Matching Events Found for '"), Arg(kw), Lit("':\n")>>
           \o Lines(r.lines)
    [] r.kind = "error" ->
         <<Lit("Error executing search tool: "), Arg(r.error)>>
    [] OTHER -> <<>>

(***************************************************************************)
(* One call of either read tool, on every backend of the bounds.           *)
(***************************************************************************)
ToolsInit == RangeInit \/ KeywordInit

ToolsNext ==
  \/ RangeAuth
  \/ RangeList
  \/ RangeFormat
  \/ KeywordAuth
  \/ KeywordList
  \/ KeywordFormat

ToolsSpec == ToolsInit /\ [][ToolsNext]_vars

(***************************************************************************)
(* The output chunker on its own: every text built of up to MaxParas       *)
(* paragraphs around the limit, joined by blank lines.                     *)
(***************************************************************************)
XLens ==
  {1, 1997, 1998, MAX_LENGTH - 1, MAX_LENGTH, MAX_LENGTH + 1, TELEGRAM_LIMIT + 1}

ParaKinds == {X(k) : k \in XLens} \cup {<<Run(" ", 2)>>, <<>>}

RECURSIVE Compose(_, _, _)
\* ps[1] sep ps[2] sep ... ps[k] and tail newlines, sep being ss[i] newlines.
Compose(ps, ss, tail) ==
  IF Len(ps) = 1 THEN Cat(ps[1], <<Run("\n", tail)>>)
  ELSE Cat(ps[1], Cat(<<Run("\n", ss[1])>>, Compose(Tail(ps), Tail(ss), tail)))

\* The handler stands before step 11 of its first message, whose run gave
\* one of the texts.
ChunkInit ==
  /\ RangeIdle
  /\ KeywordIdle
  /\ pc = "chunk"
  /\ msg = [user |-> TELEGRAM_DEVELOPER_CHAT_ID,
            chat |-> TELEGRAM_DEVELOPER_CHAT_ID, text |-> X(3)]
  /\ handled = 1
  /\ \E k \in 1..MaxParas :
       \E ps \in [1..k -> ParaKinds], ss \in [1..(k - 1) -> {2, 3}],
          tail \in {0, 1} :
         response = [has_output |-> TRUE,
                     output |-> StrOut(Compose(ps, ss, tail))]
  /\ final_answer = FinalAnswer(response)
  /\ log0 = [u \in Sessions |-> <<>>]
  /\ log = WriteBack(log0, msg, response.output)
  /\ window = <<>>
  /\ calendar_tools = NativeTools
  /\ tools = Catalog(calendar_tools)
  /\ toolCalls = <<>>
  /\ engineCalls = 1
  /\ message_to_send = <<>>
  /\ idx = 1
  /\ sent = <<>>
  /\ err = <<>>
  /\ update_queue = <<>>

ChunkNext == ChunkAnswer

ChunkSpec == ChunkInit /\ [][ChunkNext]_vars

(***************************************************************************)
(* Chunking and delivery together (steps 11 to 13), on answers of every    *)
(* kind: short, long with paragraphs, one oversized paragraph, and long    *)
(* answers made of whitespace only.                                        *)
(***************************************************************************)
DeliverTexts ==
  { X(2),
    Cat(X(MAX_LENGTH - 1), Cat(NL2, X(MAX_LENGTH - 1))),
    X(TELEGRAM_LIMIT + 1),
    <<Run(" ", MAX_LENGTH + 1)>>,
    Cat(<<Run(" ", MAX_LENGTH)>>, Cat(NL2, <<Run(" ", 1)>>)),
    Cat(<<Run(" ", MAX_LENGTH)>>, Cat(NL2, X(1))) }

\* The handler stands before step 11 of a message of the allowed identity,
\* whose run gave one of the texts.
DeliverInit ==
  /\ RangeIdle
  /\ KeywordIdle
  /\ pc = "chunk"
  /\ \E c \in {TELEGRAM_DEVELOPER_CHAT_ID, "group"}, t \in UserTexts :
       msg = [user |-> TELEGRAM_DEVELOPER_CHAT_ID, chat |-> c, text |-> t]
  /\ handled = 1
  /\ \E t \in DeliverTexts : response = [has_output |-> TRUE, output |-> StrOut(t)]
  /\ final_answer = FinalAnswer(response)
  /\ log0 = [u \in Sessions |-> <<>>]
  /\ log = WriteBack(log0, msg, response.output)
  /\ window = <<>>
  /\ calendar_tools = NativeTools
  /\ tools = Catalog(calendar_tools)
  /\ toolCalls = <<>>
  /\ engineCalls = 1
  /\ message_to_send = <<>>
  /\ idx = 1
  /\ sent = <<>>
  /\ err = <<>>
  /\ update_queue = <<>>

DeliverNext ==
  \/ ChunkAnswer
  \/ SendSegment
  \/ SendEnd
  \/ ErrorReply

DeliverSpec == DeliverInit /\ [][DeliverNext]_vars

(***************************************************************************)
(* Result normalization on its own: every shape of engine output with up   *)
(* to MaxFragments fragments.                                              *)
(***************************************************************************)
FragKinds ==
  { Frag("dict_text", X(1)), Frag("dict_text", <<>>), Frag("str", <<Run("y", 2)>>),
    Frag("str", <<>>), Frag("other", X(4)) }

NormResponses ==
  {NoResponse}
  \cup {[has_output |-> TRUE, output |-> StrOut(t)] :
          t \in {<<>>, X(1), <<Run(" ", 2)>>}}
  \cup UNION {{[has_output |-> TRUE, output |-> ListOut(ps)] :
                 ps \in [1..k -> FragKinds]} : k \in 0..MaxFragments}

\* The handler stands before step 10 of its first message, whose run
\* returned one of the responses.
NormInit ==
  /\ RangeIdle
  /\ KeywordIdle
  /\ pc = "normalize"
  /\ msg = [user |-> TELEGRAM_DEVELOPER_CHAT_ID,
            chat |-> TELEGRAM_DEVELOPER_CHAT_ID, text |-> X(3)]
  /\ handled = 1
  /\ response \in NormResponses
  /\ log0 = [u \in Sessions |-> <<>>]
  /\ log = WriteBack(log0, msg, response.output)
  /\ window = <<>>
  /\ calendar_tools = NativeTools
  /\ tools = Catalog(calendar_tools)
  /\ toolCalls = <<>>
  /\ engineCalls = 1
  /\ final_answer = <<>>
  /\ message_to_send = <<>>
  /\ idx = 1
  /\ sent = <<>>
  /\ err = <<>>
  /\ update_queue = <<>>

NormNext == Normalize

NormSpec == NormInit /\ [][NormNext]_vars

(***************************************************************************)
(* Properties.                                                             *)
(***************************************************************************)
IsPrefix(a, b) == Len(a) <= Len(b) /\ SubSeq(b, 1, Len(a)) = a

SeqRange(q) == {q[i] : i \in DOMAIN q}

Min(a, b) == IF a < b THEN a ELSE b

\* C1: a message from an identity other than the allowed one gets exactly
\* one denial send attempt to its chat and then exactly one alert send
\* attempt to the allowed identity, whether or not the denial failed; the
\* handler then returns, having made no engine call, no tool invocation and
\* no history append.
C1_AccessGuard ==
  (pc # "idle" /\ Denied(msg.user)) =>
    /\ pc \in {"deny", "alert", "done"}
    /\ engineCalls = 0
    /\ toolCalls = <<>>
    /\ tools = <<>>
    /\ log = log0
    /\ pc = "deny" => sent = <<>>
    /\ pc \in {"alert", "done"} =>
         /\ Len(sent) >= 1
         /\ sent[1].kind = "denial"
         /\ sent[1].to = msg.chat
    /\ pc = "alert" => Len(sent) = 1
    /\ pc = "done" =>
         /\ Len(sent) = 2
         /\ sent[2].kind = "alert"
         /\ sent[2].to = TELEGRAM_DEVELOPER_CHAT_ID

\* A denied message in a group chat whose denial reply failed, handled to
\* the end.
C1_Witness ==
  /\ pc = "done"
  /\ Denied(msg.user)
  /\ msg.chat = "group"
  /\ Len(sent) = 2
  /\ ~sent[1].ok

\* C2: for every session the visible window holds exactly min(WINDOW, n) of
\* the n persisted turns, and they are the last ones of the log in the
\* log's order; the chat_history the agent was given is that window.
C2_WindowIsSuffix ==
  /\ \A u \in Sessions :
       LET n == Len(log[u])
           k == Min(WINDOW, n)
           w == Window(log[u])
       IN /\ Len(w) = k
          /\ \A i \in 1..k : w[i] = log[u][n - k + i]
  /\ pc = "engine" =>
       LET n == Len(log[SessionId(msg.user)])
           k == Min(WINDOW, n)
       IN /\ Len(window) = k
          /\ \A i \in 1..k : window[i] = log[SessionId(msg.user)][n - k + i]

\* The agent reads the window of a session that holds more than WINDOW turns.
C2_Witness ==
  /\ pc = "engine"
  /\ Len(log[TELEGRAM_DEVELOPER_CHAT_ID]) > WINDOW
  /\ Len(window) = WINDOW
  /\ window[1].role = "assistant"

\* C3: whatever messages are handled, every session's log only grows at its
\* end (each step leaves the old log a prefix of the new one), and reading
\* the window leaves the log as it was.
C3_AppendOnly ==
  [][ /\ \A u \in Sessions : IsPrefix(log[u], log'[u])
      /\ (pc = "agent" /\ pc' = "engine") => log' = log ]_vars

\* A turn whose two rows were appended behind earlier ones and whose
\* delivery then failed: the rows are still there.
C3_Witness ==
  /\ pc = "done"
  /\ err # <<>>
  /\ Len(log0[TELEGRAM_DEVELOPER_CHAT_ID]) >= 4
  /\ Len(log[TELEGRAM_DEVELOPER_CHAT_ID]) = Len(log0[TELEGRAM_DEVELOPER_CHAT_ID]) + 2

C5_SegmentsWithinLimit ==
  pc = "send" =>
    \A i \in DOMAIN message_to_send :
      /\ StrLen(message_to_send[i]) <= MAX_LENGTH
      /\ StrLen(message_to_send[i]) <= TELEGRAM_LIMIT

\* Every paragraph of the text is shorter than the limit, and the text is not.
LongTextOfShortParas(text) ==
  /\ StrLen(text) > MAX_LENGTH
  /\ \A i \in DOMAIN SplitParas(text) : StrLen(SplitParas(text)[i]) < MAX_LENGTH

\* parts[i..j], each followed by a blank line.
Pack(parts, i, j) ==
  ConcatAll([k \in 1..(j - i + 1) |-> Cat(parts[i + k - 1], NL2)])

RECURSIVE WholeParas(_, _, _)
\* The segments are the parts from the i-th on, cut into consecutive groups.
WholeParas(segments, parts, i) ==
  IF segments = <<>> THEN i > Len(parts)
  ELSE \E j \in i..Len(parts) :
         /\ Head(segments) = Pack(parts, i, j)
         /\ WholeParas(Tail(segments), parts, j + 1)

\* What C6 says of the chunker's result on a text.
ParagraphsKept(text, segments) ==
  LET parts == SplitParas(text)
  IN /\ WholeParas(segments, parts, 1)
     /\ RStrip(ConcatAll(segments)) = RStrip(text)
     /\ Len(parts) = 2 =>
          /\ Len(segments) = 2
          /\ \A i \in 1..2 : RStrip(segments[i]) = RStrip(parts[i])

\* C6 (as claimed): for a text over the limit whose paragraphs are each
\* under the limit, the segments are whole paragraphs in the original
\* order, none split or dropped, their concatenation is the text up to
\* trailing whitespace, and two paragraphs give two segments.
C6_ParagraphsKept_AsClaimed ==
  (pc = "send" /\ LongTextOfShortParas(final_answer)) =>
    ParagraphsKept(final_answer, message_to_send)

\* C6 (amended): the same, for texts none of whose paragraphs is empty or
\* whitespace only.
C6_ParagraphsKept ==
  (/\ pc = "send"
   /\ LongTextOfShortParas(final_answer)
   /\ \A i \in DOMAIN SplitParas(final_answer) :
        ~IsBlank(SplitParas(final_answer)[i])) =>
    ParagraphsKept(final_answer, message_to_send)

\* Three paragraphs under the limit, none blank, of which the last two are
\* packed into one segment.
C6_Witness ==
  /\ pc = "send"
  /\ LongTextOfShortParas(final_answer)
  /\ Len(SplitParas(final_answer)) = 3
  /\ \A i \in DOMAIN SplitParas(final_answer) :
       ~IsBlank(SplitParas(final_answer)[i])
  /\ Len(message_to_send) = 2

\* C7: a final answer of at most MAX_LENGTH characters gives exactly one
\* segment, the answer itself.
C7_ShortIsOneSegment ==
  (pc = "send" /\ StrLen(final_answer) <= MAX_LENGTH) =>
    message_to_send = <<final_answer>>

\* A text of exactly MAX_LENGTH characters that holds a blank line.
C7_Witness ==
  /\ pc = "send"
  /\ StrLen(final_answer) = MAX_LENGTH
  /\ Len(SplitParas(final_answer)) > 1
  /\ message_to_send = <<final_answer>>

\* The textual fragments of a list output, in order.
TextualParts(parts) == SelectSeq(parts, LAMBDA f : f.kind \in {"dict_text", "str"})

\* C8 (as claimed): a list output gives the concatenation of its textual
\* parts, a string output is used as it is, an absent or empty output gives
\* the fallback message, and the text handed to the chunker is never empty.
C8_NeverEmpty ==
  pc = "chunk" =>
    /\ IF ~response.has_output \/ OutLen(response.output) = 0
       THEN final_answer = FALLBACK
       ELSE IF response.output.kind = "list"
       THEN final_answer =
              ConcatAll([i \in DOMAIN TextualParts(response.output.parts) |->
                           TextualParts(response.output.parts)[i].text])
       ELSE final_answer = response.output.text
    /\ final_answer # <<>>

\* The names the prompt itself bans (rule 6): each holds "search" or "get".
BannedNames == {CalendarSearchEvents, search_events, get_events}

\* C9: the catalog of a turn is the native operations of that turn, without
\* those whose name holds "search" or "get" in any letter case, in the
\* native order, followed by the two custom read tools; the engine invokes
\* only tools of that catalog, so no banned native operation.
C9_Catalog ==
  /\ tools # <<>> =>
       tools = SelectSeq(calendar_tools, LAMBDA n : n \notin BannedNames)
                 \o <<get_id_of_schedules, get_all_schedules>>
  /\ pc \in {"idle", "deny", "alert", "typing", "build"} => tools = <<>>
  /\ \A i \in DOMAIN toolCalls :
       /\ toolCalls[i] \in SeqRange(tools)
       /\ toolCalls[i] \notin BannedNames

\* A later turn whose native set holds a banned operation in capitals, with
\* a tool already invoked.
C9_Witness ==
  /\ pc = "engine"
  /\ handled >= 2
  /\ CalendarSearchEvents \in SeqRange(calendar_tools)
  /\ toolCalls # <<>>

\* C10 (as claimed): get_all_schedules lists at most RANGE_MAX_RESULTS
\* events in total, over all target calendars.
C10_AtMostFiftyInAll ==
  rpc = "returned" => Len(rresult.lines) <= RANGE_MAX_RESULTS

\* C10 (amended): it lists at most RANGE_MAX_RESULTS events of each target
\* calendar, hence at most that many times the number of target calendars.
C10_AtMostFiftyPerCalendar ==
  rpc = "returned" =>
    /\ Len(rresult.lines) = (IF rresult.kind = "schedule" THEN Len(all_events) ELSE 0)
    /\ \A c \in SeqRange(target_calendars) :
         Cardinality({i \in DOMAIN all_events : all_events[i].cal = c})
           <= RANGE_MAX_RESULTS
    /\ Len(rresult.lines) <= RANGE_MAX_RESULTS * Len(target_calendars)

\* Both calendars hold more than RANGE_MAX_RESULTS events in the range and
\* both answer: the listing has twice RANGE_MAX_RESULTS lines.
C10_Witness ==
  /\ rpc = "returned"
  /\ rresult.kind = "schedule"
  /\ \A c \in SeqRange(target_calendars) : Len(backend[c]) > RANGE_MAX_RESULTS
  /\ Len(rresult.lines) = RANGE_MAX_RESULTS * Len(target_calendars)

\* The start of a listed event, in minutes: its date, then its time of day
\* (an all-day event starts with its day).
StartOf(line) == line.date * 1440 + line.from

Ascending(lines) ==
  \A i \in DOMAIN lines : \A j \in DOMAIN lines :
    i < j => StartOf(lines[i]) <= StartOf(lines[j])

\* C11 (as claimed): the events get_all_schedules lists are in ascending
\* start-time order over the whole aggregate of the target calendars; when
\* one target calendar errors, the events of the reachable one are still
\* returned, not an error text, and still in ascending order.
C11_AscendingAggregate ==
  rpc = "returned" =>
    /\ rresult.kind = "schedule" => Ascending(rresult.lines)
    /\ (rresult.kind # "error" /\ Cardinality(unreachable) = 1) =>
         \A c \in SeqRange(target_calendars) \ unreachable :
           LET listed == ListEvents(backend[c], RANGE_MAX_RESULTS)
           IN IF listed = <<>> THEN rresult.kind = "none"
              ELSE /\ rresult.kind = "schedule"
                   /\ rresult.lines = [i \in DOMAIN listed |-> FormatEvent(listed[i])]

\* The string has at least one character: some literal piece of it has.
NonEmptyText(t) == \E i \in DOMAIN t : t[i].kind = "lit" /\ t[i].v # ""

\* The string carries the argument a, interpolated.
Mentions(t, a) == \E i \in DOMAIN t : t[i].kind = "arg" /\ t[i].v = a

\* C12: whatever the input and the backend's outcome, a backend error
\* included, each read tool returns (it never raises) a string that is not
\* empty; when no event was found, get_id_of_schedules returns the "No
\* events found" text with the keyword in it and get_all_schedules the "No
\* events scheduled" text with the start and the end date in it.
C12_NeverEmptyResult ==
  /\ kpc = "returned" =>
       /\ kresult.kind \in {"none", "matches", "error"}
       /\ NonEmptyText(KeywordText(keyword, kresult))
       /\ (kresult.kind # "error" /\ kevents = <<>>) =>
            /\ kresult.kind = "none"
            /\ KeywordText(keyword, kresult)[1] =
                 Lit("No events found matching the keyword: '")
            /\ Mentions(KeywordText(keyword, kresult), keyword)
  /\ rpc = "returned" =>
       /\ rresult.kind \in {"none", "schedule", "error"}
       /\ NonEmptyText(RangeText(rresult))
       /\ (rresult.kind # "error" /\ all_events = <<>>) =>
            /\ rresult.kind = "none"
            /\ RangeText(rresult)[1] = Lit("No events scheduled from ")
            /\ Mentions(RangeText(rresult), rresult.start_date)
            /\ Mentions(RangeText(rresult), rresult.end_date)
  /\ kpc \in {"idle", "call", "list", "format", "returned"}
  /\ rpc \in {"idle", "call", "list", "returned"}

\* The keyword tool has returned its sentinel for an empty keyword.
C12_Witness ==
  /\ kpc = "returned"
  /\ kresult.kind = "none"
  /\ keyword = ""
  /\ KeywordText(keyword, kresult) # <<>>

\* The error replies of a turn's send attempts.
ErrorAttempts(attempts) == SelectSeq(attempts, LAMBDA a : a.kind = "error")

\* The class each error text of the model belongs to, by the claim's wording:
\* the first class, in the order quota, credential, calendar authorization,
\* one of whose keywords the lower-cased text holds.
ExpectedClass ==
  { <<<<"4", "2", "9", " ", "A", "P", "I", "_", "K", "E", "Y">>,
      "API Limit Reached">>,
    <<<<"Q", "u", "o", "t", "a">>, "API Limit Reached">>,
    <<<<"4", "0", "3", " ", "i", "n", "v", "a", "l", "i", "d", "_", "g", "r",
        "a", "n", "t">>, "Configuration Error">>,
    <<<<"U", "n", "a", "u", "t", "h", "o", "r", "i", "z", "e", "d">>,
      "Calendar Sync Error">>,
    <<<<"t", "i", "m", "e", "d", " ", "o", "u", "t">>, "System Error">> }

\* The same for texts that hold the remaining keywords.
ExpectedClassOfOthers ==
  { <<<<"R", "E", "S", "O", "U", "R", "C", "E", "_", "E", "X", "H", "A", "U",
        "S", "T", "E", "D">>, "API Limit Reached">>,
    <<<<"A", "P", "I", " ", "K", "e", "y", " ", "I", "n", "v", "a", "l", "i",
        "d">>, "Configuration Error">>,
    <<<<"b", "a", "d", " ", "c", "a", "l", "e", "n", "d", "a", "r", "_", "i",
        "d">>, "Calendar Sync Error">>,
    <<<<"U", "n", "a", "u", "t", "h", "o", "r", "i", "z", "e", "d", " ", "4",
        "0", "3">>, "Configuration Error">>,
    <<<<"c", "a", "l", "e", "n", "d", "a", "r", " ", "i", "d">>,
      "System Error">>,
    <<<<>>, "System Error">> }

\* C13: an exception raised anywhere in the try block of an allowed message
\* (typing action, catalog build, agent run, delivery of a segment) takes
\* the handler to its except clause and from there to exactly one send
\* attempt of an error reply to the chat, of the first class matching the
\* lower-cased error text in the order quota, credential, calendar
\* authorization, else unknown; the handler then returns whether or not
\* that send succeeded, and no error reply is sent when nothing was raised.
C13_OneClassifiedReply ==
  /\ (pc # "idle" /\ ~Denied(msg.user)) =>
       /\ pc \in {"typing", "build", "agent", "engine", "normalize", "chunk",
                  "send", "except", "done"}
       /\ pc \notin {"except", "done"} => err = <<>>
       /\ pc # "done" => ErrorAttempts(sent) = <<>>
       /\ pc = "except" => err \in ErrTexts
       /\ pc = "done" =>
            IF err = <<>> THEN ErrorAttempts(sent) = <<>>
            ELSE /\ Len(ErrorAttempts(sent)) = 1
                 /\ sent[Len(sent)].kind = "error"
                 /\ sent[Len(sent)].to = msg.chat
                 /\ <<err, sent[Len(sent)].class>> \in ExpectedClass
  /\ pc = "except" =>
       \A p \in ExpectedClassOfOthers : Classify(p[1]) = p[2]

\* The second segment of a long answer could not be delivered for an error
\* whose text holds a quota and a credential keyword, and the error reply
\* failed as well: the handler has returned.
C13_Witness ==
  /\ pc = "done"
  /\ ~Denied(msg.user)
  /\ err = <<"4", "2", "9", " ", "A", "P", "I", "_", "K", "E", "Y">>
  /\ Len(sent) = 3
  /\ sent[1].ok /\ ~sent[2].ok /\ ~sent[3].ok
  /\ sent[3].kind = "error"

\* C14 (as claimed): within a turn the delete operation is invoked only
\* after an invocation of get_id_of_schedules or get_all_schedules of the
\* same turn (which returned the match whose identifier the delete is given).
C14_LookupBeforeDelete ==
  \A i \in DOMAIN toolCalls :
    toolCalls[i] = CalendarDeleteEvent =>
      \E j \in 1..(i - 1) :
        toolCalls[j] \in {get_id_of_schedules, get_all_schedules}

RECURSIVE GreedyPack(_, _, _, _)
\* Greedy packing as C15 words it: a part goes into the current segment
\* whenever the segment with the part and its blank line stays within
\* MAX_LENGTH, and opens a new segment only when it would exceed it.
GreedyPack(parts, i, current, segments) ==
  IF i > Len(parts) THEN Flush(current, segments)
  ELSE IF StrLen(current) + StrLen(parts[i]) + 2 <= MAX_LENGTH
       THEN GreedyPack(parts, i + 1, Cat(Cat(current, parts[i]), NL2), segments)
       ELSE GreedyPack(parts, i + 1, Cat(parts[i], NL2), Flush(current, segments))

\* C15 (as claimed): for a text over the limit the chunker packs greedily:
\* a paragraph opens a new segment only if the current segment would exceed
\* MAX_LENGTH with it, and is packed into the current segment whenever the
\* two still fit within MAX_LENGTH.
C15_GreedyPacking ==
  (pc = "send" /\ StrLen(final_answer) > MAX_LENGTH) =>
    message_to_send = GreedyPack(SplitParas(final_answer), 1, <<>>, <<>>)

C17_AlwaysAttempts ==
  (pc = "done" /\ ~Denied(msg.user)) =>
    \/ \E i \in DOMAIN sent : sent[i].kind = "segment" /\ sent[i].to = msg.chat
    \/ /\ Len(ErrorAttempts(sent)) = 1
       /\ ErrorAttempts(sent)[1].to = msg.chat

\* The answer segments among a turn's send attempts.
SegmentAttempts(attempts) == SelectSeq(attempts, LAMBDA a : a.kind = "segment")

\* C18: the two turns of a message are in the log from the moment the agent
\* run completes, hence before any segment is sent, and stay there whatever
\* happens to the delivery; until the run completes, and when it raises,
\* the log is as it was when the message came in, and no segment is sent.
\* A segment whose send fails is the last one attempted: the segments after
\* it are not sent and the one error reply follows.
C18_WriteBackBeforeDelivery ==
  (pc # "idle" /\ ~Denied(msg.user)) =>
    LET segs == SegmentAttempts(sent)
    IN /\ IF response.has_output
          THEN log = [log0 EXCEPT ![SessionId(msg.user)] =
                        @ \o <<Turn("user", StrOut(msg.text)),
                               Turn("assistant", response.output)>>]
          ELSE log = log0 /\ segs = <<>>
       /\ pc \in {"typing", "build", "agent", "engine"} =>
            ~response.has_output /\ sent = <<>>
       /\ Len(segs) <= Len(message_to_send)
       /\ \A i \in DOMAIN segs :
            /\ segs[i] = sent[i]
            /\ segs[i].text = message_to_send[i]
            /\ ~segs[i].ok =>
                 /\ i = Len(segs)
                 /\ pc \in {"except", "done"}
                 /\ err # <<>>
                 /\ pc = "done" =>
                      /\ Len(sent) = Len(segs) + 1
                      /\ sent[Len(sent)].kind = "error"

\* The answer had two segments, the first could not be delivered: the
\* second was never attempted, the error reply was, and the two turns are
\* in the log.
C18_Witness ==
  /\ pc = "done"
  /\ ~Denied(msg.user)
  /\ Len(message_to_send) = 2
  /\ Len(sent) = 2
  /\ sent[1].kind = "segment" /\ ~sent[1].ok
  /\ sent[2].kind = "error"
  /\ Len(log[SessionId(msg.user)]) = Len(log0[SessionId(msg.user)]) + 2

=============================================================================
